---- MODULE Spec2Model ----
(***************************************************************************)
(* Lifinity V2 pool engine (lifinity_v2_human_readable.rs) as a state      *)
(* machine over the persisted PoolState account.                           *)
(*                                                                         *)
(* Machine integers: the program computes in u64.  The model keeps the     *)
(* fixed width but scales it to Bits bits so that the values stay inside   *)
(* the model checker's integers; every +, - and * of the source goes       *)
(* through the wrapping operators below together with its overflow test.   *)
(* Whether an overflowing operation panics (overflow-checks on: the        *)
(* instruction aborts) or wraps (overflow-checks off) depends on the build *)
(* profile, which the source does not fix: overflow_checks is chosen       *)
(* nondeterministically in Init and never changes.  A division by zero     *)
(* panics in either build.                                                 *)
(***************************************************************************)
EXTENDS Integers, Sequences, FiniteSets, TLC

\* ---------------------------------------------------------------- bounds
\* Number of instructions (one per host slot) a behaviour executes.
MaxSlot == 2
\* Width of the machine word standing for u64.
Bits == 28

\* ------------------------------------------------------------- constants
\* The basis-point scale, written 10000 throughout the source.
BP == 10000

Modulus == 2^Bits
U64Max == Modulus - 1

\* ------------------------------------------------------- u64 arithmetic
Half == (Bits + 1) \div 2
Lo(a) == a % (2^Half)
Hi(a) == a \div (2^Half)

\* a + b in u64 when overflow-checks are off.
wrapping_add(a, b) == (a + b) % Modulus
add_overflows(a, b) == a + b > U64Max

\* a - b in u64 when overflow-checks are off.
wrapping_sub(a, b) == (a - b + Modulus) % Modulus
sub_overflows(a, b) == b > a

\* a * b in u64 when overflow-checks are off (low Bits bits of the product,
\* computed from half-words so that no intermediate exceeds the word).
wrapping_mul(a, b) ==
    (Lo(a) * Lo(b)
       + ((Hi(a) * Lo(b) + Lo(a) * Hi(b)) % (2^(Bits - Half))) * (2^Half)) % Modulus
mul_overflows(a, b) == b > 0 /\ a > U64Max \div b

\* a / b; the quotient is only used when b # 0 (b = 0 panics).
div(a, b) == IF b = 0 THEN 0 ELSE a \div b

\* --------------------------------------------------------------- inputs
Keys == {"admin", "mallory"}
Concentrations == {10000, 20000}
Exponents == {5000, 20000}
Thresholds == {100, 1000}
\* Deposits per token: a dust-sized one, a small one, and the largest whose
\* square (the curve constant k) still fits the machine word.  The empty
\* pool is the state InitializePool leaves.
Deposits == {50, 1000, 2^(Bits \div 2) - 1}
AmountsIn == {1, 1000}
MinimumsOut == {0, 500}
AmountsOut == {100}
MaximumsIn == {50, 1000}
Prices == {10000, 11000}
\* The slot the oracle sample was published in (the feed last updated at
\* slot 0; the source never reads it).
PublishSlots == {0}
\* InitializePool parameters: <<fee_numerator, fee_denominator>> and the
\* accepted oracle age in slots.
Fees == {<<30, 10000>>}
StalenessThresholds == {0}

\* ---------------------------------------------------------------- state
VARIABLES
    pool,             \* the persisted PoolState account
    slot,             \* the host's current slot (Clock sysvar)
    overflow_checks,  \* build profile: TRUE = arithmetic overflow panics
    last              \* observation of the instruction executed last

vars == <<pool, slot, overflow_checks, last>>

\* fn get_current_slot: the source's stand-in always answers 0.
get_current_slot == 0

\* PoolState as written by process_initialize_pool.  The mint, vault and
\* oracle keys and the bump seed are set once from the accounts and never
\* read by any instruction; they are left out.
NewPoolState(c, z, theta, fnum, fden, stale, auth) ==
    [ is_initialized |-> TRUE,
      concentration_factor |-> c,
      inventory_exponent |-> z,
      rebalance_threshold |-> theta,
      reserves_a |-> 0,
      reserves_b |-> 0,
      virtual_reserves_a |-> 0,
      virtual_reserves_b |-> 0,
      last_rebalance_price |-> 0,
      last_rebalance_slot |-> 0,
      fee_numerator |-> fnum,
      fee_denominator |-> fden,
      cumulative_fees_a |-> 0,
      cumulative_fees_b |-> 0,
      oracle_staleness_threshold |-> stale,
      authority |-> auth ]

\* ------------------------------------------------------ helper functions
\* fn integer_sqrt: Newton's method.  Results carry ovf (some operation
\* overflowed) and dz (a division by zero was executed).
RECURSIVE sqrt_loop(_, _, _)
sqrt_loop(n, x, y) ==
    IF y < x
    THEN IF y = 0
         THEN [v |-> 0, ovf |-> FALSE, dz |-> TRUE]
         ELSE LET q == n \div y
                  r == sqrt_loop(n, y, wrapping_add(y, q) \div 2)
              IN  [r EXCEPT !.ovf = @ \/ add_overflows(y, q)]
    ELSE [v |-> x, ovf |-> FALSE, dz |-> FALSE]

integer_sqrt(n) ==
    IF n = 0
    THEN [v |-> 0, ovf |-> FALSE, dz |-> FALSE]
    ELSE LET r == sqrt_loop(n, n, wrapping_add(n, 1) \div 2)
         IN  [r EXCEPT !.ovf = @ \/ add_overflows(n, 1)]

\* fn apply_inventory_adjustment
apply_inventory_adjustment(base_output, inventory_exponent, current_price, reference_price) ==
    IF reference_price = 0
    THEN [v |-> base_output, ovf |-> FALSE]
    ELSE LET price_ratio == wrapping_mul(current_price, BP) \div reference_price
             o1 == mul_overflows(current_price, BP)
         IN  IF price_ratio > BP
             THEN LET d == wrapping_sub(price_ratio, BP)
                      t == wrapping_mul(d, inventory_exponent) \div BP
                      adjustment == wrapping_add(BP, t)
                  IN  [v |-> wrapping_mul(base_output, adjustment) \div BP,
                       ovf |-> o1 \/ mul_overflows(d, inventory_exponent)
                                  \/ add_overflows(BP, t)
                                  \/ mul_overflows(base_output, adjustment)]
             ELSE LET d == wrapping_sub(BP, price_ratio)
                      t == wrapping_mul(d, inventory_exponent) \div BP
                      adjustment == wrapping_sub(BP, t)
                  IN  [v |-> wrapping_mul(base_output, adjustment) \div BP,
                       ovf |-> o1 \/ mul_overflows(d, inventory_exponent)
                                  \/ sub_overflows(BP, t)
                                  \/ mul_overflows(base_output, adjustment)]

\* Mutant: the input is left out of the denominator (out = in * Rout / Rin).
constant_product_output_no_impact(amount_in_after_fee, reserve_in, reserve_out) ==
    LET numerator == wrapping_mul(amount_in_after_fee, reserve_out)
    IN  [ v |-> div(numerator, reserve_in),
          ovf |-> \/ mul_overflows(reserve_in, reserve_out)
                  \/ mul_overflows(amount_in_after_fee, reserve_out)
                  \/ add_overflows(reserve_in, amount_in_after_fee),
          dz |-> reserve_in = 0 ]

\* fn calculate_swap_exact_input, "Calculate output using concentrated
\* liquidity formula": k, numerator, denominator, amount_out.
constant_product_output(amount_in_after_fee, reserve_in, reserve_out) ==
    LET numerator == wrapping_mul(amount_in_after_fee, reserve_out)
        denominator == wrapping_add(reserve_in, amount_in_after_fee)
    IN  [ v |-> div(numerator, denominator),
          ovf |-> \/ mul_overflows(reserve_in, reserve_out)
                  \/ mul_overflows(amount_in_after_fee, reserve_out)
                  \/ add_overflows(reserve_in, amount_in_after_fee),
          dz |-> denominator = 0 ]

\* fn calculate_swap_exact_input
calculate_swap_exact_input(p, amount_in, is_base_input, oracle_price) ==
    LET fee_amount == div(wrapping_mul(amount_in, p.fee_numerator), p.fee_denominator)
        amount_in_after_fee == wrapping_sub(amount_in, fee_amount)
        reserve_in == IF is_base_input THEN p.virtual_reserves_a ELSE p.virtual_reserves_b
        reserve_out == IF is_base_input THEN p.virtual_reserves_b ELSE p.virtual_reserves_a
        amount_out == constant_product_output(amount_in_after_fee, reserve_in, reserve_out)
        adjusted == apply_inventory_adjustment(amount_out.v, p.inventory_exponent,
                                               oracle_price, p.last_rebalance_price)
    IN  [ amount_out |-> adjusted.v,
          base_output |-> amount_out.v,
          fee_amount |-> fee_amount,
          ovf |-> \/ mul_overflows(amount_in, p.fee_numerator)
                  \/ sub_overflows(amount_in, fee_amount)
                  \/ amount_out.ovf
                  \/ adjusted.ovf,
          dz |-> p.fee_denominator = 0 \/ amount_out.dz ]

\* fn calculate_swap_exact_output
calculate_swap_exact_output(p, amount_out, is_base_output, oracle_price) ==
    LET reserve_out == IF is_base_output THEN p.virtual_reserves_a ELSE p.virtual_reserves_b
        reserve_in == IF is_base_output THEN p.virtual_reserves_b ELSE p.virtual_reserves_a
        numerator == wrapping_mul(reserve_in, amount_out)
        denominator == wrapping_sub(reserve_out, amount_out)
        amount_in_before_fee == div(numerator, denominator)
        fee_div == wrapping_sub(p.fee_denominator, p.fee_numerator)
        fee_amount == div(wrapping_mul(amount_in_before_fee, p.fee_numerator), fee_div)
        total_amount_in == wrapping_add(amount_in_before_fee, fee_amount)
    IN  [ amount_in |-> total_amount_in,
          fee_amount |-> fee_amount,
          insufficient |-> denominator = 0,
          ovf_early |-> \/ mul_overflows(reserve_in, amount_out)
                        \/ sub_overflows(reserve_out, amount_out),
          ovf |-> \/ mul_overflows(reserve_in, amount_out)
                  \/ sub_overflows(reserve_out, amount_out)
                  \/ mul_overflows(amount_in_before_fee, p.fee_numerator)
                  \/ sub_overflows(p.fee_denominator, p.fee_numerator)
                  \/ add_overflows(amount_in_before_fee, fee_amount),
          dz |-> fee_div = 0 ]

\* Mutant: the memo is ignored, every request rebalances.
should_rebalance_always(p, oracle_price) == [v |-> TRUE, ovf |-> FALSE]

\* fn should_rebalance
should_rebalance(p, oracle_price) ==
    IF p.last_rebalance_price = 0
    THEN [v |-> TRUE, ovf |-> FALSE]
    ELSE LET diff == IF oracle_price > p.last_rebalance_price
                     THEN oracle_price - p.last_rebalance_price
                     ELSE p.last_rebalance_price - oracle_price
             price_change == wrapping_mul(diff, BP) \div p.last_rebalance_price
         IN  [v |-> price_change > p.rebalance_threshold,
              ovf |-> mul_overflows(diff, BP)]

\* fn perform_rebalance
perform_rebalance(p, oracle_price) ==
    LET k == wrapping_mul(p.virtual_reserves_a, p.virtual_reserves_b)
        sqrt_k == integer_sqrt(k)
        sqrt_price == integer_sqrt(oracle_price)
        new_a == div(wrapping_mul(sqrt_k.v, BP), sqrt_price.v)
        new_b == wrapping_mul(sqrt_k.v, sqrt_price.v) \div BP
    IN  [ pool |-> [p EXCEPT !.virtual_reserves_a = new_a,
                             !.virtual_reserves_b = new_b,
                             !.last_rebalance_price = oracle_price,
                             !.last_rebalance_slot = get_current_slot],
          ovf |-> \/ mul_overflows(p.virtual_reserves_a, p.virtual_reserves_b)
                  \/ sqrt_k.ovf \/ sqrt_price.ovf
                  \/ mul_overflows(sqrt_k.v, BP)
                  \/ mul_overflows(sqrt_k.v, sqrt_price.v),
          dz |-> sqrt_k.dz \/ sqrt_price.dz \/ sqrt_price.v = 0 ]

\* fn recalculate_virtual_reserves
recalculate_virtual_reserves(p) ==
    [ pool |-> [p EXCEPT
          !.virtual_reserves_a = wrapping_mul(p.reserves_a, p.concentration_factor) \div BP,
          !.virtual_reserves_b = wrapping_mul(p.reserves_b, p.concentration_factor) \div BP],
      ovf |-> \/ mul_overflows(p.reserves_a, p.concentration_factor)
              \/ mul_overflows(p.reserves_b, p.concentration_factor) ]

\* Host funding of a freshly initialized pool (deposit of d_a, d_b into the
\* vaults, then virtual reserves recalculated), which precedes the first swap.
FundedPool(p, d_a, d_b) ==
    recalculate_virtual_reserves([p EXCEPT !.reserves_a = d_a, !.reserves_b = d_b])

\* ------------------------------------------------------------- handlers
\* The amounts a handler quoted (quoted = FALSE: it produced none).
Quote(amount_in, amount_out, base_output, fee_amount) ==
    [ quoted |-> TRUE, amount_in |-> amount_in, amount_out |-> amount_out,
      base_output |-> base_output, fee_amount |-> fee_amount ]
NoQuote ==
    [ quoted |-> FALSE, amount_in |-> 0, amount_out |-> 0, base_output |-> 0,
      fee_amount |-> 0 ]

\* What an instruction handler leaves behind: its result, the PoolState it
\* persisted (the prior one unless it reached serialize), the in-memory
\* PoolState after the reserve update and before the rebalance check (mid),
\* the amounts it quoted, and whether a rebalance ran / an operation wrapped.
Outcome(status, persisted, mid, quote, rebalanced, wrapped) ==
    [ status |-> status, pool |-> persisted, mid |-> mid, quote |-> quote,
      rebalanced |-> rebalanced, wrapped |-> wrapped ]

\* The instruction aborts without a result code (panic), state untouched.
Panic(p, quote) == Outcome("Panic", p, p, quote, FALSE, FALSE)

\* Mutant: the slippage comparison inverted.
slippage_inverted(amount_out, minimum_amount_out) == amount_out > minimum_amount_out

\* process_swap_exact_input, "Check slippage".
slippage_exceeded(amount_out, minimum_amount_out) == amount_out < minimum_amount_out

\* process_swap_exact_output, the bound on the input.
exceeds_max_input(amount_in, maximum_amount_in) == amount_in > maximum_amount_in

\* Mutant: the fee is booked on the counter of the output token.
credit_fee_other_side(p, fee_amount, is_base_input) ==
    IF is_base_input
    THEN [p EXCEPT !.cumulative_fees_b = wrapping_add(p.cumulative_fees_b, fee_amount)]
    ELSE [p EXCEPT !.cumulative_fees_a = wrapping_add(p.cumulative_fees_a, fee_amount)]

\* process_swap_exact_input: pool_state.cumulative_fees_{a,b} += fee_amount.
credit_fee(p, fee_amount, is_base_input) ==
    IF is_base_input
    THEN [p EXCEPT !.cumulative_fees_a = wrapping_add(p.cumulative_fees_a, fee_amount)]
    ELSE [p EXCEPT !.cumulative_fees_b = wrapping_add(p.cumulative_fees_b, fee_amount)]

\* process_swap_exact_input, "Update reserves based on swap direction".
update_reserves(p, amount_in, amount_out, fee_amount, is_base_input) ==
    IF is_base_input
    THEN [ pool |-> credit_fee([p EXCEPT
               !.reserves_a = wrapping_add(p.reserves_a, amount_in),
               !.reserves_b = wrapping_sub(p.reserves_b, amount_out),
               !.virtual_reserves_a = wrapping_add(p.virtual_reserves_a, amount_in),
               !.virtual_reserves_b = wrapping_sub(p.virtual_reserves_b, amount_out)],
               fee_amount, is_base_input),
           ovf |-> \/ add_overflows(p.reserves_a, amount_in)
                   \/ sub_overflows(p.reserves_b, amount_out)
                   \/ add_overflows(p.virtual_reserves_a, amount_in)
                   \/ sub_overflows(p.virtual_reserves_b, amount_out)
                   \/ add_overflows(p.cumulative_fees_a, fee_amount) ]
    ELSE [ pool |-> credit_fee([p EXCEPT
               !.reserves_b = wrapping_add(p.reserves_b, amount_in),
               !.reserves_a = wrapping_sub(p.reserves_a, amount_out),
               !.virtual_reserves_b = wrapping_add(p.virtual_reserves_b, amount_in),
               !.virtual_reserves_a = wrapping_sub(p.virtual_reserves_a, amount_out)],
               fee_amount, is_base_input),
           ovf |-> \/ add_overflows(p.reserves_b, amount_in)
                   \/ sub_overflows(p.reserves_a, amount_out)
                   \/ add_overflows(p.virtual_reserves_b, amount_in)
                   \/ sub_overflows(p.virtual_reserves_a, amount_out)
                   \/ add_overflows(p.cumulative_fees_b, fee_amount) ]

\* Mutant: the state is serialized before the transfers are attempted.
save_then_transfer(before, updated, transfer_ok) == updated

\* process_swap_exact_input, "Execute token transfers" then "Save updated
\* state": the PoolState the account holds afterwards.  A failed transfer
\* returns its error before serialize is reached.
transfer_then_save(before, updated, transfer_ok) ==
    IF transfer_ok THEN updated ELSE before

\* fn process_swap_exact_input.  transfer_ok: whether the host's two token
\* transfers succeed; checks: the build's overflow-checks setting.
process_swap_exact_input(p, amount_in, minimum_amount_out, is_base_input, oracle_price, transfer_ok, checks) ==
    LET q == calculate_swap_exact_input(p, amount_in, is_base_input, oracle_price)
        u == update_reserves(p, amount_in, q.amount_out, q.fee_amount, is_base_input)
        need == should_rebalance(u.pool, oracle_price)
        r == perform_rebalance(u.pool, oracle_price)
        final == IF need.v THEN r.pool ELSE u.pool
        wrapped == q.ovf \/ u.ovf \/ need.ovf \/ (need.v /\ r.ovf)
        quote == Quote(amount_in, q.amount_out, q.base_output, q.fee_amount)
    IN  IF q.dz \/ (checks /\ q.ovf)
        THEN Panic(p, NoQuote)
        ELSE IF slippage_exceeded(q.amount_out, minimum_amount_out)
        THEN Outcome("Custom1", p, p, quote, FALSE, q.ovf)
        ELSE IF checks /\ (u.ovf \/ need.ovf)
        THEN Panic(p, quote)
        ELSE IF need.v /\ (r.dz \/ (checks /\ r.ovf))
        THEN Panic(p, quote)
        ELSE Outcome(IF transfer_ok THEN "Ok" ELSE "TransferFailed",
                     transfer_then_save(p, final, transfer_ok),
                     u.pool, quote, need.v, wrapped)

\* fn process_swap_exact_output: quotes and checks the bound; the source
\* stops there ("Update state and execute transfers ... // ...").
process_swap_exact_output(p, amount_out, maximum_amount_in, is_base_output, oracle_price, checks) ==
    LET q == calculate_swap_exact_output(p, amount_out, is_base_output, oracle_price)
        quote == Quote(q.amount_in, amount_out, amount_out, q.fee_amount)
    IN  IF checks /\ q.ovf_early
        THEN Panic(p, NoQuote)
        ELSE IF q.insufficient
        THEN Outcome("Custom6", p, p, NoQuote, FALSE, q.ovf_early)
        ELSE IF q.dz \/ (checks /\ q.ovf)
        THEN Panic(p, NoQuote)
        ELSE IF exceeds_max_input(q.amount_in, maximum_amount_in)
        THEN Outcome("Custom2", p, p, quote, FALSE, q.ovf)
        ELSE Outcome("Ok", p, p, quote, FALSE, q.ovf)

\* fn process_rebalance_v2
process_rebalance_v2(p, signer, oracle_price, checks) ==
    LET need == should_rebalance(p, oracle_price)
        r == perform_rebalance(p, oracle_price)
    IN  IF signer # p.authority
        THEN Outcome("Custom3", p, p, NoQuote, FALSE, FALSE)
        ELSE IF checks /\ need.ovf
        THEN Panic(p, NoQuote)
        ELSE IF ~need.v
        THEN Outcome("Ok", p, p, NoQuote, FALSE, need.ovf)
        ELSE IF r.dz \/ (checks /\ r.ovf)
        THEN Panic(p, NoQuote)
        ELSE Outcome("Ok", r.pool, p, NoQuote, TRUE, need.ovf \/ r.ovf)

\* fn process_update_concentration
process_update_concentration(p, signer, new_concentration_factor, checks) ==
    LET r == recalculate_virtual_reserves(
                 [p EXCEPT !.concentration_factor = new_concentration_factor])
    IN  IF signer # p.authority
        THEN Outcome("Custom4", p, p, NoQuote, FALSE, FALSE)
        ELSE IF checks /\ r.ovf
        THEN Panic(p, NoQuote)
        ELSE Outcome("Ok", r.pool, p, NoQuote, FALSE, r.ovf)

\* fn process_update_inventory_params
process_update_inventory_params(p, signer, new_inventory_exponent, new_rebalance_threshold) ==
    IF signer # p.authority
    THEN Outcome("Custom5", p, p, NoQuote, FALSE, FALSE)
    ELSE Outcome("Ok",
                 [p EXCEPT !.inventory_exponent = new_inventory_exponent,
                           !.rebalance_threshold = new_rebalance_threshold],
                 p, NoQuote, FALSE, FALSE)

\* fn process_initialize_pool: builds a fresh PoolState and serializes it
\* over the account, whatever the account held.
process_initialize_pool(p, c, z, theta, fnum, fden, stale, auth) ==
    Outcome("Ok", NewPoolState(c, z, theta, fnum, fden, stale, auth), p, NoQuote,
            FALSE, FALSE)

\* ------------------------------------------------------------ the machine
\* The record kept of the instruction executed last: its inputs, the
\* PoolState before it (pre), what the handler left behind, and whether the
\* instruction before it committed a rebalance and at which price (prev).
Observe(op, pre, o, prev, bound, is_base, oracle_price, publish_slot, signer) ==
    [ op |-> op, status |-> o.status, pre |-> pre, mid |-> o.mid, prev |-> prev,
      quote |-> o.quote, bound |-> bound, is_base |-> is_base,
      oracle_price |-> oracle_price, publish_slot |-> publish_slot,
      at_slot |-> slot, signer |-> signer,
      rebalanced |-> o.rebalanced, wrapped |-> o.wrapped ]

\* One instruction lands per host slot; its handler's outcome replaces the
\* account.
Commit(op, o, bound, is_base, oracle_price, publish_slot, signer) ==
    /\ slot < MaxSlot
    /\ pool' = o.pool
    /\ last' = Observe(op, pool, o,
                        [ rebalanced |-> last.rebalanced /\ last.status = "Ok",
                          oracle_price |-> last.oracle_price ],
                        bound, is_base, oracle_price, publish_slot, signer)
    /\ slot' = slot + 1
    /\ UNCHANGED overflow_checks

Init ==
    /\ overflow_checks \in BOOLEAN
    /\ slot = 0
    /\ \E c \in Concentrations, z \in Exponents, theta \in Thresholds, fee \in Fees,
          stale \in StalenessThresholds, d \in Deposits :
          LET f == FundedPool(NewPoolState(c, z, theta, fee[1], fee[2], stale, "admin"),
                              d, d)
          IN  /\ ~f.ovf
              /\ pool = f.pool
    /\ last = Observe("Init", pool, Outcome("Ok", pool, pool, NoQuote, FALSE, FALSE),
                      [rebalanced |-> FALSE, oracle_price |-> 0],
                      0, FALSE, 0, 0, "admin")

InitializePool ==
    \E c \in Concentrations, z \in Exponents, theta \in Thresholds, fee \in Fees,
       stale \in StalenessThresholds, auth \in Keys :
        Commit("InitializePool",
               process_initialize_pool(pool, c, z, theta, fee[1], fee[2], stale, auth),
               0, FALSE, 0, 0, auth)

SwapExactInput ==
    \E amount_in \in AmountsIn, minimum_amount_out \in MinimumsOut, is_base_input \in BOOLEAN,
       oracle_price \in Prices, publish_slot \in PublishSlots, transfer_ok \in BOOLEAN :
        Commit("SwapExactInput",
               process_swap_exact_input(pool, amount_in, minimum_amount_out, is_base_input,
                                        oracle_price, transfer_ok, overflow_checks),
               minimum_amount_out, is_base_input, oracle_price, publish_slot, "user")

SwapExactOutput ==
    \E amount_out \in AmountsOut, maximum_amount_in \in MaximumsIn, is_base_output \in BOOLEAN,
       oracle_price \in Prices, publish_slot \in PublishSlots :
        Commit("SwapExactOutput",
               process_swap_exact_output(pool, amount_out, maximum_amount_in, is_base_output,
                                         oracle_price, overflow_checks),
               maximum_amount_in, is_base_output, oracle_price, publish_slot, "user")

RebalanceV2 ==
    \E signer \in Keys, oracle_price \in Prices, publish_slot \in PublishSlots :
        Commit("RebalanceV2",
               process_rebalance_v2(pool, signer, oracle_price, overflow_checks),
               0, FALSE, oracle_price, publish_slot, signer)

UpdateConcentration ==
    \E signer \in Keys, new_concentration_factor \in Concentrations :
        Commit("UpdateConcentration",
               process_update_concentration(pool, signer, new_concentration_factor,
                                            overflow_checks),
               new_concentration_factor, FALSE, 0, 0, signer)

UpdateInventoryParams ==
    \E signer \in Keys, new_inventory_exponent \in Exponents,
       new_rebalance_threshold \in Thresholds :
        Commit("UpdateInventoryParams",
               process_update_inventory_params(pool, signer, new_inventory_exponent,
                                               new_rebalance_threshold),
               0, FALSE, 0, 0, signer)

Next ==
    \/ InitializePool
    \/ SwapExactInput
    \/ SwapExactOutput
    \/ RebalanceV2
    \/ UpdateConcentration
    \/ UpdateInventoryParams

Spec == Init /\ [][Next]_vars

\* ================================================================ claims
IsSwapIn == last.op = "SwapExactInput"
IsSwapOut == last.op = "SwapExactOutput"
Succeeded == last.status = "Ok"

\* The reserve fields of a PoolState, by swap side (TRUE = token A is input).
ReserveIn(p, base) == IF base THEN p.reserves_a ELSE p.reserves_b
ReserveOut(p, base) == IF base THEN p.reserves_b ELSE p.reserves_a
VirtualIn(p, base) == IF base THEN p.virtual_reserves_a ELSE p.virtual_reserves_b
VirtualOut(p, base) == IF base THEN p.virtual_reserves_b ELSE p.virtual_reserves_a
FeesIn(p, base) == IF base THEN p.cumulative_fees_a ELSE p.cumulative_fees_b
FeesOut(p, base) == IF base THEN p.cumulative_fees_b ELSE p.cumulative_fees_a

\* C1: whenever an instruction does not succeed (an error code, a failed
\* transfer or a panic), the persisted PoolState equals, field by field, the
\* PoolState before the instruction.
C1_FailureLeavesStateUntouched ==
    ~Succeeded => pool = last.pre

\* C1 witness: a swap that had already updated reserves in memory when a
\* token transfer failed.
C1_Witness ==
    /\ IsSwapIn
    /\ last.status = "TransferFailed"
    /\ last.mid # last.pre
    /\ pool = last.pre

\* C2 (as claimed): after every successful swap the physical and the virtual
\* reserves of both tokens are strictly positive, and a SwapExactInput whose
\* skew-adjusted output is not below the virtual out-reserve, or exceeds the
\* physical out-reserve, does not succeed.
C2_ReservesPositiveAfterSwap ==
    /\ (IsSwapIn \/ IsSwapOut) /\ Succeeded =>
          /\ pool.reserves_a > 0
          /\ pool.reserves_b > 0
          /\ pool.virtual_reserves_a > 0
          /\ pool.virtual_reserves_b > 0
    /\ /\ IsSwapIn
       /\ last.quote.quoted
       /\ \/ last.quote.amount_out >= VirtualOut(last.pre, last.is_base)
          \/ last.quote.amount_out > ReserveOut(last.pre, last.is_base)
       => ~Succeeded

\* C3 (as claimed): a swap presented with a stale oracle sample
\* (current slot - publish slot > oracle_staleness_threshold) or with price 0
\* fails and commits nothing.
C3_OracleGate ==
    /\ (IsSwapIn \/ IsSwapOut)
    /\ \/ last.at_slot - last.publish_slot > last.pre.oracle_staleness_threshold
       \/ last.oracle_price = 0
    => /\ ~Succeeded
       /\ pool = last.pre

\* C4: a successful SwapExactInput delivers at least minimum_amount_out, a
\* successful SwapExactOutput charges at most maximum_amount_in, and a quote
\* that violates its bound ends in the slippage error (Custom(1) for exact-in,
\* Custom(2) for exact-out) with the PoolState untouched.
C4_SlippageRespected ==
    /\ IsSwapIn /\ Succeeded => last.quote.amount_out >= last.bound
    /\ IsSwapOut /\ Succeeded => last.quote.amount_in <= last.bound
    /\ IsSwapIn /\ last.quote.quoted /\ last.quote.amount_out < last.bound
          => last.status = "Custom1" /\ pool = last.pre
    /\ IsSwapOut /\ last.quote.quoted /\ last.quote.amount_in > last.bound
          => last.status = "Custom2" /\ pool = last.pre

\* C4 witness: a committed exact-in swap that had a positive minimum to meet.
C4_Witness ==
    /\ IsSwapIn
    /\ Succeeded
    /\ last.bound > 0
    /\ last.quote.amount_out >= last.bound
    /\ pool # last.pre

\* Exact products of two machine words, as <<high, low>> digits in base
\* 2^(2*Half), so that curve constants can be compared without wrapping.
Base2 == (2^Half) * (2^Half)
Product(x, y) ==
    LET m == Hi(x) * Lo(y) + Lo(x) * Hi(y)
        l == Lo(x) * Lo(y) + (m % (2^Half)) * (2^Half)
    IN  <<Hi(x) * Hi(y) + m \div (2^Half) + l \div Base2, l % Base2>>
Plus(pr, n) == <<pr[1] + (pr[2] + n) \div Base2, (pr[2] + n) % Base2>>
Leq(pr, qr) == pr[1] < qr[1] \/ (pr[1] = qr[1] /\ pr[2] <= qr[2])
CurveK(p) == Product(p.virtual_reserves_a, p.virtual_reserves_b)

PriceTolerance(price) == price \div 10
AbsDiff(a, b) == IF a > b THEN a - b ELSE b - a

\* C6 (as claimed): after every successful rebalance at oracle price p the
\* marginal price virtual_reserves_b * 10000 / virtual_reserves_a equals p up
\* to rounding, and at p = 10000 the two virtual reserves are equal.
C6_RebalanceOnOracle ==
    last.rebalanced /\ Succeeded =>
        /\ last.oracle_price = BP => pool.virtual_reserves_a = pool.virtual_reserves_b
        /\ pool.virtual_reserves_a > 0 /\ pool.virtual_reserves_b <= U64Max \div BP =>
              AbsDiff((pool.virtual_reserves_b * BP) \div pool.virtual_reserves_a,
                      last.oracle_price) <= PriceTolerance(last.oracle_price)

\* C7 (as claimed): every successful rebalance yields v_a' * v_b' <= k and
\* k - v_a' * v_b' <= 2 * (v_a' + v_b'), k being the product of the virtual
\* reserves right before the rebalance.
C7_RebalanceDrift ==
    last.rebalanced /\ Succeeded =>
        LET s == pool.virtual_reserves_a + pool.virtual_reserves_b
        IN  /\ Leq(CurveK(pool), CurveK(last.mid))
            /\ Leq(CurveK(last.mid), Plus(Plus(CurveK(pool), s), s))

\* C7 restricted to rebalances in which no u64 operation wrapped.
C7_RebalanceDriftNoWrap ==
    ~last.wrapped => C7_RebalanceDrift

\* C8 (as claimed): a successful SwapExactInput moves, before any rebalance,
\* the physical and the virtual reserve of the input token up by exactly
\* amount_in and those of the output token down by exactly amount_out.
C8_ParallelMotion ==
    IsSwapIn /\ Succeeded =>
        LET b == last.is_base
        IN  /\ ReserveIn(last.mid, b) = ReserveIn(last.pre, b) + last.quote.amount_in
            /\ VirtualIn(last.mid, b) = VirtualIn(last.pre, b) + last.quote.amount_in
            /\ ReserveOut(last.mid, b) = ReserveOut(last.pre, b) - last.quote.amount_out
            /\ VirtualOut(last.mid, b) = VirtualOut(last.pre, b) - last.quote.amount_out

\* C8 restricted to swaps in which no u64 operation wrapped.
C8_ParallelMotionNoWrap ==
    ~last.wrapped => C8_ParallelMotion

\* floor(amount_in * fee_numerator / fee_denominator) of the swap executed last.
ExactFee == (last.quote.amount_in * last.pre.fee_numerator) \div last.pre.fee_denominator

\* C9 (as claimed): a successful SwapExactInput increases exactly one fee
\* counter, the input token's, by floor(amount_in * fee_numerator /
\* fee_denominator), and leaves the other unchanged.
C9_ExactlyOneFeeCounterIncreases ==
    IsSwapIn /\ Succeeded =>
        LET b == last.is_base
        IN  /\ FeesIn(pool, b) > FeesIn(last.pre, b)
            /\ FeesIn(pool, b) = FeesIn(last.pre, b) + ExactFee
            /\ FeesOut(pool, b) = FeesOut(last.pre, b)

\* C9 (amended): a successful SwapExactInput leaves the output token's fee
\* counter unchanged and advances the input token's counter (in u64) by the
\* quoted fee, which is floor(amount_in * fee_numerator / fee_denominator)
\* whenever that product fits the word; the fee may be 0, and then neither
\* counter increases.
C9_FeeBookedOnInputSide ==
    IsSwapIn /\ Succeeded =>
        LET b == last.is_base
        IN  /\ FeesOut(pool, b) = FeesOut(last.pre, b)
            /\ FeesIn(pool, b) = (FeesIn(last.pre, b) + last.quote.fee_amount) % Modulus
            /\ ~mul_overflows(last.quote.amount_in, last.pre.fee_numerator)
                  => last.quote.fee_amount = ExactFee

\* C9 witness: a committed swap that charged a positive fee.
C9_Witness ==
    /\ IsSwapIn
    /\ Succeeded
    /\ last.quote.fee_amount > 0
    /\ FeesIn(pool, last.is_base) = FeesIn(last.pre, last.is_base) + last.quote.fee_amount

\* C10 (as claimed): a successful SwapExactOutput commits the swap: the
\* output token's physical and virtual reserves decrease by amount_out, the
\* input token's increase by the total amount_in, and the input token's fee
\* counter increases by the fee (is_base = TRUE: token A is the output).
C10_ExactOutputCommits ==
    IsSwapOut /\ Succeeded =>
        LET b == last.is_base
        IN  /\ ReserveIn(pool, b) = ReserveIn(last.pre, b) - last.quote.amount_out
            /\ VirtualIn(last.mid, b) = VirtualIn(last.pre, b) - last.quote.amount_out
            /\ ReserveOut(pool, b) = ReserveOut(last.pre, b) + last.quote.amount_in
            /\ VirtualOut(last.mid, b) = VirtualOut(last.pre, b) + last.quote.amount_in
            /\ FeesOut(pool, b) = FeesOut(last.pre, b) + last.quote.fee_amount

\* C11 (as claimed): InitializePool on a PoolState that is already
\* initialized fails and changes nothing.
C11_InitializeOnce ==
    last.op = "InitializePool" /\ last.pre.is_initialized =>
        /\ ~Succeeded
        /\ pool = last.pre

IsGated == last.op \in {"RebalanceV2", "UpdateConcentration", "UpdateInventoryParams"}
ParamsChanged ==
    \/ pool.concentration_factor # last.pre.concentration_factor
    \/ pool.inventory_exponent # last.pre.inventory_exponent
    \/ pool.rebalance_threshold # last.pre.rebalance_threshold

\* C12 (as claimed): RebalanceV2, UpdateConcentration and
\* UpdateInventoryParams presented with a key other than pool.authority fail
\* as Unauthorized and change nothing; and the concentration factor, the
\* inventory exponent and the rebalance threshold change only through an
\* instruction presented with the pool's authority.
C12_AuthorityGated ==
    /\ IsGated /\ last.signer # last.pre.authority =>
           /\ last.status \in {"Custom3", "Custom4", "Custom5"}
           /\ pool = last.pre
    /\ last.op # "Init" /\ ParamsChanged => last.signer = last.pre.authority

\* C12, the part the three gated handlers decide by themselves: a foreign key
\* is turned away with the state untouched, and they write the parameters
\* only for the authority.
C12_GatedHandlersRejectStrangers ==
    IsGated =>
        /\ last.signer # last.pre.authority =>
               /\ last.status \in {"Custom3", "Custom4", "Custom5"}
               /\ pool = last.pre
        /\ ParamsChanged => last.signer = last.pre.authority

\* C13 (as claimed): last_rebalance_slot never decreases; after a successful
\* rebalance at oracle price p and host slot s the memo is (p, s); an
\* instruction that commits no rebalance keeps last_rebalance_price.
C13_RebalanceMemo ==
    last.op # "Init" =>
        /\ pool.last_rebalance_slot >= last.pre.last_rebalance_slot
        /\ last.rebalanced /\ Succeeded =>
               /\ pool.last_rebalance_price = last.oracle_price
               /\ pool.last_rebalance_slot = last.at_slot
        /\ ~(last.rebalanced /\ Succeeded) =>
               pool.last_rebalance_price = last.pre.last_rebalance_price

\* C13, the price half for the instructions other than InitializePool: a
\* committed rebalance records its oracle price, anything else keeps it.
C13_PriceMemo ==
    last.op \notin {"Init", "InitializePool"} =>
        /\ last.rebalanced /\ Succeeded => pool.last_rebalance_price = last.oracle_price
        /\ ~(last.rebalanced /\ Succeeded) =>
               pool.last_rebalance_price = last.pre.last_rebalance_price

\* The trigger as specified, in exact arithmetic: never rebalanced, or the
\* deviation from the reference in basis points strictly above the threshold.
Trigger(p, oracle_price) ==
    \/ p.last_rebalance_price = 0
    \/ (AbsDiff(oracle_price, p.last_rebalance_price) * BP) \div p.last_rebalance_price
           > p.rebalance_threshold

\* C14 (as claimed): a successful swap, and a RebalanceV2 by the authority,
\* rebalances exactly when the trigger holds; so the first successful swap on
\* a never-rebalanced pool leaves the memo at that swap's oracle price.
C14_RebalanceTrigger ==
    /\ \/ (IsSwapIn \/ IsSwapOut) /\ Succeeded
       \/ last.op = "RebalanceV2" /\ Succeeded /\ last.signer = last.pre.authority
       => (last.rebalanced <=> Trigger(last.pre, last.oracle_price))
    /\ (IsSwapIn \/ IsSwapOut) /\ Succeeded /\ last.pre.last_rebalance_price = 0
       => pool.last_rebalance_price = last.oracle_price

\* C14 for the two handlers that consult should_rebalance: SwapExactInput
\* and RebalanceV2 rebalance exactly when the trigger holds.
C14_TriggerWhereConsulted ==
    \/ IsSwapIn /\ Succeeded
    \/ last.op = "RebalanceV2" /\ Succeeded /\ last.signer = last.pre.authority
    => (last.rebalanced <=> Trigger(last.pre, last.oracle_price))

\* The instruction is a RebalanceV2 by the authority that directly follows a
\* committed rebalance and presents the same oracle price p > 0.
IsSecondRebalance ==
    /\ last.op = "RebalanceV2"
    /\ last.signer = last.pre.authority
    /\ last.prev.rebalanced
    /\ last.prev.oracle_price > 0
    /\ last.oracle_price = last.prev.oracle_price

\* C15: directly after a successful rebalance at oracle price p > 0, a
\* RebalanceV2 by the authority at the same price is a no-op: it returns Ok,
\* runs no rebalance and leaves every PoolState field as it was.
C15_RebalanceFixedPoint ==
    IsSecondRebalance =>
        /\ Succeeded
        /\ ~last.rebalanced
        /\ pool = last.pre

\* C15's case: a rebalance that moved the virtual reserves, then the second
\* request at the same price, which left them alone.
C15_Witness ==
    /\ IsSecondRebalance
    /\ Succeeded
    /\ pool.last_rebalance_price = last.oracle_price
    /\ pool.virtual_reserves_a # pool.virtual_reserves_b
    /\ pool = last.pre

IsUpdateConcentration == last.op = "UpdateConcentration"

\* C16 (as claimed): after a successful UpdateConcentration(new_c) the
\* concentration factor is new_c, each virtual reserve is
\* floor(reserves_x * new_c / 10000), last_rebalance_price is 0, and the
\* physical reserves and the fee counters are unchanged.
C16_UpdateConcentrationResets ==
    IsUpdateConcentration /\ Succeeded =>
        /\ pool.concentration_factor = last.bound
        /\ Leq(Product(pool.reserves_a, last.bound), Plus(Product(pool.virtual_reserves_a, BP), BP - 1))
        /\ Leq(Product(pool.virtual_reserves_a, BP), Product(pool.reserves_a, last.bound))
        /\ Leq(Product(pool.reserves_b, last.bound), Plus(Product(pool.virtual_reserves_b, BP), BP - 1))
        /\ Leq(Product(pool.virtual_reserves_b, BP), Product(pool.reserves_b, last.bound))
        /\ pool.last_rebalance_price = 0
        /\ pool.reserves_a = last.pre.reserves_a
        /\ pool.reserves_b = last.pre.reserves_b
        /\ pool.cumulative_fees_a = last.pre.cumulative_fees_a
        /\ pool.cumulative_fees_b = last.pre.cumulative_fees_b

\* C16 without the reset: where no product wraps, UpdateConcentration writes
\* the factor and rescales the virtual reserves, and touches nothing else.
C16_UpdateConcentrationRescales ==
    IsUpdateConcentration /\ Succeeded /\ ~last.wrapped =>
        pool = [last.pre EXCEPT
                   !.concentration_factor = last.bound,
                   !.virtual_reserves_a = (last.pre.reserves_a * last.bound) \div BP,
                   !.virtual_reserves_b = (last.pre.reserves_b * last.bound) \div BP]

\* C17 (as claimed): no committed rebalance leaves a virtual reserve at 0;
\* in particular a curve with both virtual reserves positive before the
\* rebalance (mid: after the swap's reserve update) has them positive after.
C17_NoDegenerateRebalance ==
    last.rebalanced /\ Succeeded =>
        /\ pool.virtual_reserves_a > 0
        /\ pool.virtual_reserves_b > 0

\* C18 (as claimed): a swap against a pool whose virtual reserve is 0 on the
\* input or the output side fails and commits nothing.
C18_ZeroLiquidityRejected ==
    /\ IsSwapIn \/ IsSwapOut
    /\ \/ last.pre.virtual_reserves_a = 0
       \/ last.pre.virtual_reserves_b = 0
    => /\ ~Succeeded
       /\ pool = last.pre

\* C19 (as claimed): no instruction, successful or failed, lowers
\* cumulative_fees_a or cumulative_fees_b.
C19_FeesMonotone ==
    last.op # "Init" =>
        /\ pool.cumulative_fees_a >= last.pre.cumulative_fees_a
        /\ pool.cumulative_fees_b >= last.pre.cumulative_fees_b

\* C19 for every instruction but InitializePool.
C19_FeesMonotoneWithoutReinit ==
    last.op \notin {"Init", "InitializePool"} =>
        /\ pool.cumulative_fees_a >= last.pre.cumulative_fees_a
        /\ pool.cumulative_fees_b >= last.pre.cumulative_fees_b

VirtualCoversPhysical(p) ==
    /\ p.virtual_reserves_a >= p.reserves_a
    /\ p.virtual_reserves_b >= p.reserves_b

\* C20 (as claimed): a successful swap or rebalance on a pool with
\* concentration_factor >= 10000 whose virtual reserves are at least the
\* physical ones leaves them so.  Every pool starts with its virtual reserves
\* set from the physical ones; instructions in which a u64 operation wrapped
\* are left aside, so a violation is one of plain arithmetic.
C20_VirtualAtLeastPhysical ==
    /\ last.op \in {"SwapExactInput", "SwapExactOutput", "RebalanceV2"}
    /\ Succeeded
    /\ ~last.wrapped
    /\ last.pre.concentration_factor >= BP
    /\ VirtualCoversPhysical(last.pre)
    => VirtualCoversPhysical(pool)

\* C21 (as claimed): no product that left the u64 range is behind a committed
\* result.  Checked on three of the listed products: reserves_x *
\* concentration_factor (UpdateConcentration commits the exact floor),
\* virtual_reserves_a * virtual_reserves_b (a committed rebalance started from
\* a k that fits), and amount_in * fee_numerator (a committed swap).
C21_NoWrappedProductCommitted ==
    /\ IsUpdateConcentration /\ Succeeded =>
           /\ ~mul_overflows(last.pre.reserves_a, last.bound)
           /\ ~mul_overflows(last.pre.reserves_b, last.bound)
    /\ last.rebalanced /\ Succeeded =>
           ~mul_overflows(last.mid.virtual_reserves_a, last.mid.virtual_reserves_b)
    /\ IsSwapIn /\ Succeeded =>
           ~mul_overflows(last.quote.amount_in, last.pre.fee_numerator)

\* C21 in the build with overflow checks: there an overflowing operation
\* aborts the instruction, so no committed instruction has a wrapped
\* operation behind it.
C21_ChecksBuildNeverWraps ==
    overflow_checks => ~last.wrapped

\* ================================================ the helper functions alone
\* integer_sqrt and apply_inventory_adjustment are pure: the second
\* specification calls them on arguments drawn from bounded sets and keeps
\* the call and what it returned in last.

\* Arguments around the places where the code changes behaviour: 0, small
\* values, and the first value whose product with 10000 leaves the word.
BaseOutputs == {0, 1, 1000, U64Max \div BP + 1, U64Max}
FnExponents == {0, 5000, 10000, 20000}
FnPrices == {4000, 9000, 10000, 11000, 20000, U64Max \div BP + 1}
FnReferences == FnPrices \cup {0}
Radicands ==
    (0 .. 26) \cup {99, 100, 101, 1000000, 2^(Bits - 1), U64Max - 1, U64Max}

\* What the caller gets from a helper whose computation is r: a panic on a
\* division by zero, or on an overflow in the build that checks for it;
\* otherwise the value, wrapped where an operation overflowed.
Returned(r, dz, checks) ==
    [ panicked |-> dz \/ (checks /\ r.ovf), v |-> r.v, ovf |-> r.ovf ]

InitFn ==
    /\ overflow_checks \in BOOLEAN
    /\ slot = 0
    /\ pool = NewPoolState(BP, 0, 0, 0, 1, 0, "admin")
    /\ last = [op |-> "Init"]

CallApplyInventoryAdjustment ==
    \E base_output \in BaseOutputs, inventory_exponent \in FnExponents,
       current_price \in FnPrices, reference_price \in FnReferences :
        /\ last' = [ op |-> "apply_inventory_adjustment",
                     base_output |-> base_output,
                     inventory_exponent |-> inventory_exponent,
                     current_price |-> current_price,
                     reference_price |-> reference_price,
                     result |-> Returned(apply_inventory_adjustment(
                                             base_output, inventory_exponent,
                                             current_price, reference_price),
                                         FALSE, overflow_checks) ]
        /\ UNCHANGED <<pool, slot, overflow_checks>>

CallIntegerSqrt ==
    \E n \in Radicands :
        /\ last' = [ op |-> "integer_sqrt", n |-> n,
                     result |-> Returned(integer_sqrt(n), integer_sqrt(n).dz,
                                         overflow_checks) ]
        /\ UNCHANGED <<pool, slot, overflow_checks>>

NextFn ==
    \/ CallApplyInventoryAdjustment
    \/ CallIntegerSqrt

SpecFn == InitFn /\ [][NextFn]_vars

IsAdjustment == last.op = "apply_inventory_adjustment"
IsSqrt == last.op = "integer_sqrt"

\* The adjustment factor as specified, in exact arithmetic: 10000 moved by
\* z/10000 of the ratio's distance from 10000, then clamped into [1, 20000].
ClaimedAdjustment(z, current_price, reference_price) ==
    LET ratio == (current_price * BP) \div reference_price
    IN  IF ratio > BP
        THEN LET d == ratio - BP
             IN  IF z > 0 /\ d >= (BP * BP + z - 1) \div z
                 THEN 2 * BP
                 ELSE BP + (d * z) \div BP
        ELSE LET t == ((BP - ratio) * z) \div BP
             IN  IF t >= BP THEN 1 ELSE BP - t

\* v = floor(x * adj / 10000), compared in exact arithmetic.
IsFloorOfScaled(v, x, adj) ==
    /\ Leq(Product(v, BP), Product(x, adj))
    /\ Leq(Product(x, adj), Plus(Product(v, BP), BP - 1))

\* C22 (as claimed): for reference_price > 0, apply_inventory_adjustment
\* returns floor(base_output * adj / 10000) with adj the specified factor
\* clamped into [1, 20000], and never fails; so the result is at most
\* 2 * base_output, not below base_output when the price is above the
\* reference and not above it when the price is below.
C22_ClampedAdjustment ==
    IsAdjustment /\ last.reference_price > 0 =>
        /\ ~last.result.panicked
        /\ IsFloorOfScaled(last.result.v, last.base_output,
                           ClaimedAdjustment(last.inventory_exponent,
                                             last.current_price, last.reference_price))
        /\ last.result.v <= 2 * last.base_output
        /\ last.current_price > last.reference_price => last.result.v >= last.base_output
        /\ last.current_price < last.reference_price => last.result.v <= last.base_output

\* C22 where no operation overflowed and the specified factor needs no
\* clamping: the code returns the specified value.
C22_AgreesWithinClamp ==
    /\ IsAdjustment
    /\ last.reference_price > 0
    /\ ~last.result.ovf
    /\ (((BP - (last.current_price * BP) \div last.reference_price)
            * last.inventory_exponent) \div BP < BP)
    /\ (last.current_price * BP) \div last.reference_price <= 2 * BP
    /\ last.inventory_exponent <= BP
    => /\ ~last.result.panicked
       /\ IsFloorOfScaled(last.result.v, last.base_output,
                          ClaimedAdjustment(last.inventory_exponent,
                                            last.current_price, last.reference_price))

\* C23 (as claimed): at parity, current_price = reference_price = p > 0,
\* apply_inventory_adjustment returns base_output, whatever base_output and
\* the exponent are.
C23_IdentityAtParity ==
    IsAdjustment /\ last.reference_price > 0 /\ last.current_price = last.reference_price =>
        /\ ~last.result.panicked
        /\ last.result.v = last.base_output

\* C23 for the arguments whose products with 10000 fit the word.
C23_IdentityAtParityWithoutOverflow ==
    /\ IsAdjustment
    /\ last.reference_price > 0
    /\ last.current_price = last.reference_price
    /\ ~last.result.ovf
    => /\ ~last.result.panicked
       /\ last.result.v = last.base_output

\* C24 (as claimed): for every n up to the largest word, integer_sqrt
\* returns, and returns r with r^2 <= n < (r + 1)^2.
C24_FloorSquareRoot ==
    IsSqrt =>
        /\ ~last.result.panicked
        /\ last.result.v * last.result.v <= last.n
        /\ last.n < (last.result.v + 1) * (last.result.v + 1)

\* C24 for every n below the largest word.
C24_FloorSquareRootBelowMax ==
    IsSqrt /\ last.n < U64Max =>
        /\ ~last.result.panicked
        /\ ~last.result.ovf
        /\ last.result.v * last.result.v <= last.n
        /\ last.n < (last.result.v + 1) * (last.result.v + 1)

====
